---- MODULE Spec2Model ----
(***************************************************************************)
(* Model of src/my_tools.py: the CloudFormation deploy/poll loop           *)
(* (deploy_bedrock_flow_stack), the S3 template repository                 *)
(* (ensure_templates_bucket, list_s3_templates, save_template,             *)
(* get_template) and the Bedrock Flow invocation (invoke_bedrock_flow).    *)
(*                                                                         *)
(* The three tools share no state, so each has its own specification over  *)
(* the same variables: SpecDeploy, SpecDeployLive, SpecTemplates,         *)
(* SpecListRace, SpecEnsureRace, SpecSaveRace, SpecTwice, SpecInvoke.      *)
(*                                                                         *)
(* Representation choices:                                                 *)
(*  - a stack status such as ROLLBACK_COMPLETE is the sequence of its      *)
(*    underscore-separated words, so that str.endswith("COMPLETE") is      *)
(*    computed on the status, not looked up;                               *)
(*  - a Python str is a sequence of one-character strings (names, keys)    *)
(*    or of code points (template bodies, so that UTF-8 can be computed);  *)
(*  - Python None is the empty sequence for fields that hold sequences.    *)
(***************************************************************************)
EXTENDS Integers, Sequences, FiniteSets, TLC

VARIABLES
    \* ---- deploy_bedrock_flow_stack ----
    pc,                   \* position of the deploy call
    now,                  \* time.time(), in seconds
    cfnStack,             \* provider: status of the stack of the given name
    stackEvents,          \* provider: event log of the stack, newest first
    start,                \* local `start`
    timeout_seconds,      \* argument
    poll_interval_seconds,\* argument
    exists,               \* local `exists`
    action,               \* local `action`
    final_stack_status,   \* local
    status_reason,        \* local
    last_events,          \* local
    result,               \* the returned dict (valid when pc = "returned")
    exc,                  \* the exception leaving the call (pc = "raised")
    \* history of the deploy call (not program state)
    existedAtProbe,       \* did the stack exist when the probe ran
    probeError,           \* error the probe raised, "None" if it returned
    issued,               \* sequence of create_stack / update_stack calls issued
    mutateError,          \* error create_stack / update_stack raised, "None" if none
    polls,                \* number of describe_stacks calls made by the loop
                          \* (counted up to MaxPolls)
    lastPoll,             \* what the latest poll fetched: its number, the
                          \* status, the events kept, the length of the listing
    expiredUnobserved     \* elapsed > timeout_seconds held at a moment when no
                          \* poll had yet observed a terminal status

VARIABLES
    \* ---- S3 template tools ----
    sessionRegion,        \* boto3.session.Session().region_name ("None" if unset)
    s3Buckets,            \* provider: names of the buckets that exist
    s3Objects,            \* provider: bucket name -> (key -> stored bytes)
    active,               \* the callers that issue tool calls
    tpc,                  \* caller -> position inside its tool call
    call,                 \* caller -> the tool call it is in, with its arguments
                          \* and its history: was the bucket absent or empty
                          \* at the start, how did head_bucket end, did the
                          \* call write the default template
    loc,                  \* caller -> locals: bucket, key, keys, continuation_token
    ret,                  \* caller -> outcome of its call, once it has ended
    \* history of the template tools (not program state)
    lastApi,              \* caller -> the last S3 request of its call
    written,              \* bucket name -> (key -> the str last written there)
    freshList             \* caller -> the result of its list_s3_templates call
                          \* begun on an absent or empty bucket, while it has
                          \* neither saved nor listed again since

templateVars == <<sessionRegion, s3Buckets, s3Objects, active, tpc, call, loc,
                  ret, lastApi, written, freshList>>

VARIABLES
    \* ---- invoke_bedrock_flow ----
    fpc,                  \* position of the invoke call
    responseStream,       \* response["responseStream"], as received
    unread,               \* the events of the stream not yet iterated over
    raw_events,           \* local
    aggregated,           \* local
    flowResult            \* the returned dict (valid when fpc = "returned")

flowVars == <<fpc, responseStream, unread, raw_events, aggregated, flowResult>>

VARIABLES
    \* ---- a tool call executed twice in succession (history) ----
    phase,                \* 0: no call chosen yet, 1: the chosen call has ended
                          \* once, 2: it has ended a second time
    prev                  \* the chosen call, its outcome and the store it left

idemVars == <<phase, prev>>

deployVars == <<pc, now, cfnStack, stackEvents, start, timeout_seconds,
                poll_interval_seconds, exists, action, final_stack_status,
                status_reason, last_events, result, exc, existedAtProbe,
                probeError, issued, mutateError, polls, lastPoll,
                expiredUnobserved>>

vars == <<deployVars, templateVars, flowVars, idemVars>>

-----------------------------------------------------------------------------
(* Bounds *)

MaxTimeout == 10
MaxPoll == 2
MaxPriorEvents == 10
NumCallers == 2
MaxPageKeys == 2
MaxStreamLen == 3

Timeouts == {0, 2, MaxTimeout}
PollIntervals == {1, MaxPoll}
\* more polls than a call can make before its deadline: one per second of
\* the longest timeout, and the one at second 0
MaxPolls == MaxTimeout + 2

\* the clock saturates above every deadline the model can set
MaxClock == MaxTimeout + MaxPoll + 1

-----------------------------------------------------------------------------
(* Helpers *)

Min(a, b) == IF a < b THEN a ELSE b

None == <<>>

DigitChars == <<"0", "1", "2", "3", "4", "5", "6", "7", "8", "9">>

\* str(n) for a non-negative int, as a sequence of characters
RECURSIVE Str(_)
Str(n) == IF n < 10 THEN <<DigitChars[n + 1]>>
          ELSE Str(n \div 10) \o <<DigitChars[(n % 10) + 1]>>

\* sub in s, for sequences
Contains(s, sub) ==
    \E i \in 1..(Len(s) - Len(sub) + 1) : SubSeq(s, i, i + Len(sub) - 1) = sub

\* s.endswith(w) on a status held as its sequence of words
EndsWith(s, w) == Len(s) > 0 /\ s[Len(s)] = w

\* s[:n]
Take(s, n) == SubSeq(s, 1, Min(Len(s), n))

-----------------------------------------------------------------------------
(* CloudFormation stack statuses *)

CREATE_IN_PROGRESS == <<"CREATE", "IN", "PROGRESS">>
CREATE_COMPLETE == <<"CREATE", "COMPLETE">>
CREATE_FAILED == <<"CREATE", "FAILED">>
ROLLBACK_IN_PROGRESS == <<"ROLLBACK", "IN", "PROGRESS">>
ROLLBACK_COMPLETE == <<"ROLLBACK", "COMPLETE">>
ROLLBACK_FAILED == <<"ROLLBACK", "FAILED">>
UPDATE_IN_PROGRESS == <<"UPDATE", "IN", "PROGRESS">>
UPDATE_COMPLETE_CLEANUP_IN_PROGRESS ==
    <<"UPDATE", "COMPLETE", "CLEANUP", "IN", "PROGRESS">>
UPDATE_COMPLETE == <<"UPDATE", "COMPLETE">>
UPDATE_FAILED == <<"UPDATE", "FAILED">>
UPDATE_ROLLBACK_IN_PROGRESS == <<"UPDATE", "ROLLBACK", "IN", "PROGRESS">>
UPDATE_ROLLBACK_COMPLETE_CLEANUP_IN_PROGRESS ==
    <<"UPDATE", "ROLLBACK", "COMPLETE", "CLEANUP", "IN", "PROGRESS">>
UPDATE_ROLLBACK_COMPLETE == <<"UPDATE", "ROLLBACK", "COMPLETE">>
UPDATE_ROLLBACK_FAILED == <<"UPDATE", "ROLLBACK", "FAILED">>
DELETE_IN_PROGRESS == <<"DELETE", "IN", "PROGRESS">>
DELETE_COMPLETE == <<"DELETE", "COMPLETE">>
DELETE_FAILED == <<"DELETE", "FAILED">>

\* no stack of that name was ever created
Absent == <<>>

TERMINAL_STATUSES == {
    CREATE_COMPLETE,
    CREATE_FAILED,
    ROLLBACK_COMPLETE,
    ROLLBACK_FAILED,
    UPDATE_COMPLETE,
    UPDATE_ROLLBACK_COMPLETE,
    UPDATE_ROLLBACK_FAILED }

-----------------------------------------------------------------------------
(* The CloudFormation service, as the deploy call sees it *)

\* describe_stacks(StackName=<name>) finds only stacks that are not deleted
StackExistsByName(s) == s \notin {Absent, DELETE_COMPLETE}

\* statuses from which the provider accepts update_stack
Updatable == {CREATE_COMPLETE, UPDATE_COMPLETE, UPDATE_ROLLBACK_COMPLETE}

\* statuses the provider moves to on its own
StackSuccessors(s) ==
    CASE s = CREATE_IN_PROGRESS -> {CREATE_COMPLETE, CREATE_FAILED, ROLLBACK_IN_PROGRESS}
      [] s = ROLLBACK_IN_PROGRESS -> {ROLLBACK_COMPLETE, ROLLBACK_FAILED}
      [] s = UPDATE_IN_PROGRESS ->
            {UPDATE_COMPLETE_CLEANUP_IN_PROGRESS, UPDATE_ROLLBACK_IN_PROGRESS, UPDATE_FAILED}
      [] s = UPDATE_COMPLETE_CLEANUP_IN_PROGRESS -> {UPDATE_COMPLETE}
      [] s = UPDATE_ROLLBACK_IN_PROGRESS ->
            {UPDATE_ROLLBACK_COMPLETE_CLEANUP_IN_PROGRESS, UPDATE_ROLLBACK_FAILED}
      [] s = UPDATE_ROLLBACK_COMPLETE_CLEANUP_IN_PROGRESS -> {UPDATE_ROLLBACK_COMPLETE}
      [] s = DELETE_IN_PROGRESS -> {DELETE_COMPLETE, DELETE_FAILED}
      [] OTHER -> {}

\* stack["StackStatusReason"]: present for failures and rollbacks only
StackStatusReason(s) ==
    IF s # Absent /\ (EndsWith(s, "FAILED") \/ \E i \in 1..Len(s) : s[i] = "ROLLBACK")
    THEN <<"Resource creation failed">>
    ELSE None

\* one entry of describe_stack_events' StackEvents; Timestamp is the
\* position of the event in the stack's history
StackEvent(n, s) ==
    [Timestamp |-> n,
     ResourceType |-> "AWS::CloudFormation::Stack",
     LogicalResourceId |-> "stack",
     ResourceStatus |-> s,
     ResourceStatusReason |-> StackStatusReason(s)]

\* the log, newest first, after the stack moved to status s
LogAppend(log, s) == <<StackEvent(Len(log) + 1, s)>> \o log

\* the log of a stack that existed before the call: k events, the newest
\* reporting its current status
RECURSIVE PriorLog(_, _)
PriorLog(k, s) ==
    IF k = 0 THEN <<>>
    ELSE LogAppend(PriorLog(k - 1, CREATE_IN_PROGRESS), s)

\* botocore errors: ClientError is what `except client.exceptions.ClientError`
\* catches; a connection error is a BotoCoreError and is not a ClientError
ClientErrorCodes == {"ValidationError", "Throttling", "AlreadyExistsException"}
OtherErrors == {"EndpointConnectionError"}
IsClientError(e) == e \in ClientErrorCodes

\* the outcomes of describe_stacks(StackName=stack_name); "None" = it returned
ProbeOutcomes(s) ==
    IF StackExistsByName(s)
    THEN {"None", "Throttling", "EndpointConnectionError"}
    ELSE {"ValidationError", "Throttling", "EndpointConnectionError"}

\* the outcomes of create_stack
CreateOutcomes(s) ==
    IF StackExistsByName(s)
    THEN {"AlreadyExistsException"}
    ELSE {"None", "ValidationError"}

\* the outcomes of update_stack
UpdateOutcomes(s) ==
    IF s \in Updatable THEN {"None", "ValidationError"} ELSE {"ValidationError"}

-----------------------------------------------------------------------------
(* deploy_bedrock_flow_stack *)

EVENT_WINDOW == 10

NoResult ==
    [status |-> "NONE", final_stack_status |-> None, status_reason |-> None,
     last_events |-> <<>>, action |-> "NONE"]

\* line 82: f"Timed out after {timeout_seconds} seconds"
TimeoutReason(t) == <<"Timed out after ">> \o Str(t) \o <<" seconds">>

\* a loop with no deadline
DeadlinePassed_Never(t, s, timeout) == FALSE

\* a deadline check that allows one second too many
DeadlinePassed_Late(t, s, timeout) == t - s > timeout + 1

\* line 75: time.time() - start > timeout_seconds
DeadlinePassed(t, s, timeout) == t - s > timeout

\* line 113
Classify(s) == IF EndsWith(s, "COMPLETE") THEN "SUCCESS" ELSE "FAILED"

\* lines 97-106: the dict built from one provider event
EventDict(e) ==
    [timestamp |-> Str(e.Timestamp),
     resource_type |-> e.ResourceType,
     logical_resource_id |-> e.LogicalResourceId,
     resource_status |-> e.ResourceStatus,
     resource_status_reason |-> e.ResourceStatusReason]

\* a window that keeps the oldest events of the listing
RecentEvents_Last(log) ==
    [i \in 1..Min(Len(log), EVENT_WINDOW) |->
        EventDict(log[Len(log) - Min(Len(log), EVENT_WINDOW) + i])]

\* lines 96-106
RecentEvents(log) ==
    [i \in 1..Len(Take(log, EVENT_WINDOW)) |-> EventDict(log[i])]

\* history: the deadline has passed while no terminal status was observed
Expired(t) ==
    expiredUnobserved
    \/ (pc \notin {"idle", "returned", "raised"}
        /\ DeadlinePassed(t, start, timeout_seconds)
        /\ final_stack_status \notin TERMINAL_STATUSES)

\* history: no poll has been made
NoPoll == [n |-> 0, status |-> None, events |-> None, listed |-> 0]

provider == <<cfnStack, stackEvents>>
args == <<timeout_seconds, poll_interval_seconds>>
locals == <<exists, action, final_stack_status, status_reason, last_events>>
history == <<existedAtProbe, probeError, issued, mutateError, polls, lastPoll>>

\* lines 38-39: the call starts
deploy_bedrock_flow_stack(t, p) ==
    /\ pc = "idle"
    /\ pc' = "probe"
    /\ start' = now
    /\ timeout_seconds' = t
    /\ poll_interval_seconds' = p
    /\ UNCHANGED <<now, provider, locals, result, exc, history, expiredUnobserved>>

\* lines 41-47: the existence probe
Probe(outcome) ==
    /\ pc = "probe"
    /\ outcome \in ProbeOutcomes(cfnStack)
    /\ existedAtProbe' = StackExistsByName(cfnStack)
    /\ probeError' = outcome
    /\ IF outcome = "None"
       THEN /\ exists' = TRUE
            /\ pc' = "mutate"
            /\ exc' = exc
       ELSE IF IsClientError(outcome)
       THEN /\ exists' = FALSE
            /\ pc' = "mutate"
            /\ exc' = exc
       ELSE /\ exists' = exists
            /\ pc' = "raised"
            /\ exc' = outcome
    /\ UNCHANGED <<now, provider, start, args, action, final_stack_status,
                   status_reason, last_events, result, issued, mutateError,
                   polls, lastPoll, expiredUnobserved>>

\* a deploy that turns a failed create/update into a FAILED result
RaiseFromMutate_Fabricated(outcome) ==
    /\ pc' = "returned"
    /\ exc' = exc
    /\ result' = [status |-> "FAILED", final_stack_status |-> None,
                  status_reason |-> <<outcome>>, last_events |-> <<>>,
                  action |-> action]

\* lines 61-68: create_stack / update_stack sit in no try block, so an error
\* they raise leaves the call
RaiseFromMutate(outcome) ==
    /\ pc' = "raised"
    /\ exc' = outcome
    /\ result' = result

\* lines 61-63, 68-72: `not exists` branch
CreateStack(outcome) ==
    /\ pc = "mutate"
    /\ ~exists
    /\ outcome \in CreateOutcomes(cfnStack)
    /\ issued' = Append(issued, "create_stack")
    /\ mutateError' = outcome
    /\ IF outcome = "None"
       THEN /\ cfnStack' = CREATE_IN_PROGRESS
            /\ stackEvents' = LogAppend(<<>>, CREATE_IN_PROGRESS)
            /\ action' = "CREATE"
            /\ pc' = "loop"
            /\ exc' = exc
            /\ result' = result
       ELSE /\ RaiseFromMutate(outcome)
            /\ UNCHANGED <<provider, action>>
    /\ UNCHANGED <<now, start, args, exists, final_stack_status, status_reason,
                   last_events, existedAtProbe, probeError, polls, lastPoll,
                   expiredUnobserved>>

\* lines 64-66, 68-72: `exists` branch
UpdateStack(outcome) ==
    /\ pc = "mutate"
    /\ exists
    /\ outcome \in UpdateOutcomes(cfnStack)
    /\ issued' = Append(issued, "update_stack")
    /\ mutateError' = outcome
    /\ IF outcome = "None"
       THEN /\ cfnStack' = UPDATE_IN_PROGRESS
            /\ stackEvents' = LogAppend(stackEvents, UPDATE_IN_PROGRESS)
            /\ action' = "UPDATE"
            /\ pc' = "loop"
            /\ exc' = exc
            /\ result' = result
       ELSE /\ RaiseFromMutate(outcome)
            /\ UNCHANGED <<provider, action>>
    /\ UNCHANGED <<now, start, args, exists, final_stack_status, status_reason,
                   last_events, existedAtProbe, probeError, polls, lastPoll,
                   expiredUnobserved>>

\* a loop that fetches the status once more when the deadline has passed
DeadlineCheck_FetchFirst ==
    /\ pc = "loop"
    /\ IF DeadlinePassed(now, start, timeout_seconds)
       THEN /\ final_stack_status' = cfnStack
            /\ status_reason' = StackStatusReason(cfnStack)
            /\ result' = [status |-> IF cfnStack \in TERMINAL_STATUSES
                                     THEN Classify(cfnStack) ELSE "TIMEOUT",
                          final_stack_status |-> cfnStack,
                          status_reason |-> TimeoutReason(timeout_seconds),
                          last_events |-> last_events,
                          action |-> action]
            /\ pc' = "returned"
       ELSE /\ pc' = "describe"
            /\ result' = result
            /\ UNCHANGED <<final_stack_status, status_reason>>
    /\ UNCHANGED <<now, provider, start, args, exists, action, last_events, exc,
                   history, expiredUnobserved>>

\* a TIMEOUT result that reports no status and no events
DeadlineCheck_NoSnapshot ==
    /\ pc = "loop"
    /\ IF DeadlinePassed(now, start, timeout_seconds)
       THEN /\ result' = [status |-> "TIMEOUT",
                          final_stack_status |-> None,
                          status_reason |-> TimeoutReason(timeout_seconds),
                          last_events |-> <<>>,
                          action |-> action]
            /\ pc' = "returned"
       ELSE /\ pc' = "describe"
            /\ result' = result
    /\ UNCHANGED <<now, provider, start, args, locals, exc, history,
                   expiredUnobserved>>

\* lines 74-87: the deadline check at the top of an iteration
DeadlineCheck ==
    /\ pc = "loop"
    /\ IF DeadlinePassed(now, start, timeout_seconds)
       THEN /\ result' = [status |-> "TIMEOUT",
                          final_stack_status |-> final_stack_status,
                          status_reason |-> TimeoutReason(timeout_seconds),
                          last_events |-> last_events,
                          action |-> action]
            /\ pc' = "returned"
       ELSE /\ pc' = "describe"
            /\ result' = result
    /\ UNCHANGED <<now, provider, start, args, locals, exc, history,
                   expiredUnobserved>>

\* lines 89-92: describe_stacks(StackName=stack_id)
DescribeStacks(outcome) ==
    /\ pc = "describe"
    /\ outcome \in {"None", "Throttling"}
    /\ polls' = Min(polls + 1, MaxPolls)
    /\ IF outcome = "None"
       THEN /\ final_stack_status' = cfnStack
            /\ status_reason' = StackStatusReason(cfnStack)
            /\ lastPoll' = [n |-> polls', status |-> cfnStack,
                            events |-> None, listed |-> 0]
            /\ pc' = "events"
            /\ exc' = exc
       ELSE /\ pc' = "raised"
            /\ exc' = outcome
            /\ UNCHANGED <<final_stack_status, status_reason, lastPoll>>
    /\ UNCHANGED <<now, provider, start, args, exists, action, last_events,
                   result, existedAtProbe, probeError, issued, mutateError,
                   expiredUnobserved>>

\* lines 94-106: describe_stack_events(StackName=stack_id)
DescribeStackEvents(outcome) ==
    /\ pc = "events"
    /\ outcome \in {"None", "Throttling"}
    /\ IF outcome = "None"
       THEN /\ last_events' = RecentEvents(stackEvents)
            /\ lastPoll' = [lastPoll EXCEPT !.events = last_events',
                                            !.listed = Len(stackEvents)]
            /\ pc' = "check"
            /\ exc' = exc
       ELSE /\ pc' = "raised"
            /\ exc' = outcome
            /\ UNCHANGED <<last_events, lastPoll>>
    /\ UNCHANGED <<now, provider, start, args, exists, action,
                   final_stack_status, status_reason, result, existedAtProbe,
                   probeError, issued, mutateError, polls, expiredUnobserved>>

\* a loop that ends on any status with a COMPLETE or FAILED suffix
IsTerminal_BySuffix(s) == EndsWith(s, "COMPLETE") \/ EndsWith(s, "FAILED")

\* line 108: final_stack_status in TERMINAL_STATUSES
IsTerminal(s) == s \in TERMINAL_STATUSES

\* lines 108-109, 113-124: a terminal status ends the loop and is classified
\* lines 108, 111: any other status goes on to the sleep
TerminalCheck ==
    /\ pc = "check"
    /\ IF IsTerminal(final_stack_status)
       THEN /\ result' = [status |-> Classify(final_stack_status),
                          final_stack_status |-> final_stack_status,
                          status_reason |-> status_reason,
                          last_events |-> last_events,
                          action |-> action]
            /\ pc' = "returned"
       ELSE /\ pc' = "sleep"
            /\ result' = result
    /\ UNCHANGED <<now, provider, start, args, locals, exc, history,
                   expiredUnobserved>>

\* a loop that goes back to the create/update call after each sleep
Sleep_Reissue ==
    /\ pc = "sleep"
    /\ now' = Min(now + poll_interval_seconds, MaxClock)
    /\ expiredUnobserved' = Expired(now')
    /\ pc' = "mutate"
    /\ UNCHANGED <<provider, start, args, locals, result, exc, history>>

\* line 111: time.sleep(poll_interval_seconds)
Sleep ==
    /\ pc = "sleep"
    /\ now' = Min(now + poll_interval_seconds, MaxClock)
    /\ expiredUnobserved' = Expired(now')
    /\ pc' = "loop"
    /\ UNCHANGED <<provider, start, args, locals, result, exc, history>>

\* wall-clock time passes while the call runs (provider calls take time, a
\* sleep may overrun)
Tick ==
    /\ pc \notin {"idle", "returned", "raised"}
    /\ now < MaxClock
    /\ now' = now + 1
    /\ expiredUnobserved' = Expired(now')
    /\ UNCHANGED <<pc, provider, start, args, locals, result, exc, history>>

\* the provider moves the stack to its next status
StackProgress(s) ==
    /\ pc \notin {"idle", "returned", "raised"}
    /\ s \in StackSuccessors(cfnStack)
    /\ cfnStack' = s
    /\ stackEvents' = LogAppend(stackEvents, s)
    /\ UNCHANGED <<pc, now, start, args, locals, result, exc, history,
                   expiredUnobserved>>

\* another caller deletes the stack while the call runs
\* (delete_bedrock_flow_stack is a tool of the same agent)
ExternalDelete ==
    /\ pc \in {"loop", "describe", "events", "check", "sleep"}
    /\ cfnStack \in TERMINAL_STATUSES \cup {UPDATE_FAILED}
    /\ cfnStack' = DELETE_IN_PROGRESS
    /\ stackEvents' = LogAppend(stackEvents, DELETE_IN_PROGRESS)
    /\ UNCHANGED <<pc, now, start, args, locals, result, exc, history,
                   expiredUnobserved>>

AllStatuses ==
    TERMINAL_STATUSES \cup
    {CREATE_IN_PROGRESS, ROLLBACK_IN_PROGRESS, UPDATE_IN_PROGRESS,
     UPDATE_COMPLETE_CLEANUP_IN_PROGRESS, UPDATE_FAILED,
     UPDATE_ROLLBACK_IN_PROGRESS, UPDATE_ROLLBACK_COMPLETE_CLEANUP_IN_PROGRESS,
     DELETE_IN_PROGRESS, DELETE_COMPLETE, DELETE_FAILED}

\* the states a stack of the given name can be in when deploy is called
InitialStacks ==
    {Absent, CREATE_COMPLETE, ROLLBACK_COMPLETE, UPDATE_ROLLBACK_COMPLETE,
     DELETE_IN_PROGRESS}

DeployInit ==
    /\ pc = "idle"
    /\ now = 0
    /\ cfnStack \in InitialStacks
    /\ \E k \in {1, MaxPriorEvents} :
          stackEvents = IF cfnStack = Absent THEN <<>> ELSE PriorLog(k, cfnStack)
    /\ start = 0
    /\ timeout_seconds = 0
    /\ poll_interval_seconds = 1
    /\ exists = FALSE
    /\ action = "NONE"
    /\ final_stack_status = None
    /\ status_reason = None
    /\ last_events = <<>>
    /\ result = NoResult
    /\ exc = "None"
    /\ existedAtProbe = FALSE
    /\ probeError = "None"
    /\ issued = <<>>
    /\ mutateError = "None"
    /\ polls = 0
    /\ lastPoll = NoPoll
    /\ expiredUnobserved = FALSE

DeployStep ==
    \/ \E t \in Timeouts, p \in PollIntervals : deploy_bedrock_flow_stack(t, p)
    \/ \E o \in ClientErrorCodes \cup OtherErrors \cup {"None"} : Probe(o)
    \/ \E o \in ClientErrorCodes \cup {"None"} : CreateStack(o)
    \/ \E o \in ClientErrorCodes \cup {"None"} : UpdateStack(o)
    \/ DeadlineCheck
    \/ \E o \in {"None", "Throttling"} : DescribeStacks(o)
    \/ \E o \in {"None", "Throttling"} : DescribeStackEvents(o)
    \/ TerminalCheck
    \/ Sleep
    \/ Tick
    \/ \E s \in AllStatuses : StackProgress(s)
    \/ ExternalDelete

-----------------------------------------------------------------------------
(* Python str values of the template tools *)

\* the characters of names and keys, in code-point order
Alphabet ==
    <<"-", ".", "a", "b", "c", "d", "e", "f", "g", "h", "i", "j", "k", "l", "m",
      "n", "o", "p", "q", "r", "s", "t", "u", "v", "w", "x", "y", "z">>

CharCode(c) == CHOOSE i \in 1..Len(Alphabet) : Alphabet[i] = c

\* a < b for two str values, by code point (the order S3 lists keys in)
RECURSIVE StrLess(_, _)
StrLess(a, b) ==
    IF Len(b) = 0 THEN FALSE
    ELSE IF Len(a) = 0 THEN TRUE
    ELSE IF a[1] # b[1] THEN CharCode(a[1]) < CharCode(b[1])
    ELSE StrLess(Tail(a), Tail(b))

\* str.encode("utf-8") of one code point
EncodeCodePoint(c) ==
    IF c < 128 THEN <<c>>
    ELSE IF c < 2048 THEN <<192 + (c \div 64), 128 + (c % 64)>>
    ELSE IF c < 65536
    THEN <<224 + (c \div 4096), 128 + ((c \div 64) % 64), 128 + (c % 64)>>
    ELSE <<240 + (c \div 262144), 128 + ((c \div 4096) % 64),
           128 + ((c \div 64) % 64), 128 + (c % 64)>>

\* str.encode("utf-8")
RECURSIVE Utf8Encode(_)
Utf8Encode(str) ==
    IF Len(str) = 0 THEN <<>>
    ELSE EncodeCodePoint(Head(str)) \o Utf8Encode(Tail(str))

\* bytes.decode("utf-8") of well-formed UTF-8
RECURSIVE Utf8Decode(_)
Utf8Decode(b) ==
    IF Len(b) = 0 THEN <<>>
    ELSE IF b[1] < 128 THEN <<b[1]>> \o Utf8Decode(SubSeq(b, 2, Len(b)))
    ELSE IF b[1] < 224
    THEN <<(b[1] - 192) * 64 + (b[2] - 128)>> \o Utf8Decode(SubSeq(b, 3, Len(b)))
    ELSE IF b[1] < 240
    THEN <<(b[1] - 224) * 4096 + (b[2] - 128) * 64 + (b[3] - 128)>>
         \o Utf8Decode(SubSeq(b, 4, Len(b)))
    ELSE <<(b[1] - 240) * 262144 + (b[2] - 128) * 4096 + (b[3] - 128) * 64
           + (b[4] - 128)>> \o Utf8Decode(SubSeq(b, 5, Len(b)))

-----------------------------------------------------------------------------
(* S3 template tools: constants and pure parts *)

S3_TEMPLATES_BUCKET_PREFIX == "bedrock-flow-templates"

DEFAULT_TEMPLATE_KEY ==
    <<"s", "i", "m", "p", "l", "e", "-", "b", "e", "d", "r", "o", "c", "k", "-",
      "f", "l", "o", "w", ".", "y", "a", "m", "l">>

\* the text returned by _get_default_template, abbreviated to the code
\* points of its first word "AWSTemplateFormatVersion"; the text is ASCII
\* and the tools never look inside it
DefaultTemplate ==
    <<65, 87, 83, 84, 101, 109, 112, 108, 97, 116, 101, 70, 111, 114, 109, 97,
      116, 86, 101, 114, 115, 105, 111, 110>>

\* lines 415-420
get_default_template == DefaultTemplate

DEFAULT_REGION == "us-east-1"

\* sts.get_caller_identity()["Account"]
AccountId == "123456789012"

\* a falsy region argument or session region: None or ""
Falsy(r) == r \in {"None", ""}

\* lines 213 and 232: region or session.region_name or "us-east-1"
ResolveRegion(region, session) ==
    IF ~Falsy(region) THEN region
    ELSE IF ~Falsy(session) THEN session
    ELSE DEFAULT_REGION

\* lines 207-216
get_templates_bucket_name(region, session) ==
    <<S3_TEMPLATES_BUCKET_PREFIX, "-", AccountId, "-",
      ResolveRegion(region, session)>>

\* a create_bucket that names the region in every request
CreateBucketKwargs_AlwaysConstraint(bucket, reg) ==
    [api |-> "create_bucket", Bucket |-> bucket, LocationConstraint |-> reg]

\* lines 230-236: the keyword arguments of create_bucket
CreateBucketKwargs(bucket, reg) ==
    IF reg # "us-east-1"
    THEN [api |-> "create_bucket", Bucket |-> bucket, LocationConstraint |-> reg]
    ELSE [api |-> "create_bucket", Bucket |-> bucket]

YamlSuffix == <<".", "y", "a", "m", "l">>

\* "." in key
HasDot(key) == \E i \in 1..Len(key) : key[i] = "."

\* a save_template that appends ".yaml" to every name
save_template_key_AlwaysAppend(template_name) == template_name \o YamlSuffix

\* lines 489-491
save_template_key(template_name) ==
    IF ~HasDot(template_name) THEN template_name \o YamlSuffix ELSE template_name

\* lines 521-523
get_template_key(template_name) ==
    IF ~HasDot(template_name) THEN template_name \o YamlSuffix ELSE template_name

-----------------------------------------------------------------------------
(* The S3 service *)

\* head_bucket: 404 for a missing bucket; a bucket that exists may still
\* fail the probe (403, connection error)
HeadOutcomes(bucket) ==
    IF bucket \in s3Buckets THEN {"None", "Forbidden"} ELSE {"NotFound"}

\* create_bucket of a bucket this account already owns: accepted in
\* us-east-1, BucketAlreadyOwnedByYou in every other region
CreateBucketOutcome(bucket, reg) ==
    IF bucket \in s3Buckets /\ reg # "us-east-1"
    THEN "BucketAlreadyOwnedByYou"
    ELSE "None"

\* the keys of a bucket
KeysOf(bucket) == DOMAIN s3Objects[bucket]

\* the keys of a bucket after `token`, in listing order
RECURSIVE Sorted(_)
Sorted(S) ==
    IF S = {} THEN <<>>
    ELSE LET least == CHOOSE k \in S : \A j \in S \ {k} : StrLess(k, j)
         IN <<least>> \o Sorted(S \ {least})

KeysAfter(bucket, token) ==
    Sorted({k \in KeysOf(bucket) : token = None \/ StrLess(token, k)})

\* list_objects_v2: a page of n keys after the continuation token
ListObjectsV2(bucket, token, n) ==
    LET rest == KeysAfter(bucket, token)
        page == Take(rest, n)
    IN [Contents |-> page,
        IsTruncated |-> Len(rest) > Len(page),
        NextContinuationToken |->
            IF Len(rest) > Len(page) THEN page[Len(page)] ELSE None]

\* history: the str handed to the put_object that wrote the key last
Remember(w, bucket, key, str) ==
    [w EXCEPT ![bucket] =
        [k \in DOMAIN w[bucket] \cup {key} |-> IF k = key THEN str ELSE w[bucket][k]]]

\* a put_object that leaves an existing object alone
PutObject_KeepExisting(objects, bucket, key, bytes) ==
    [objects EXCEPT ![bucket] =
        [k \in DOMAIN objects[bucket] \cup {key} |->
            IF k \in DOMAIN objects[bucket] THEN objects[bucket][k] ELSE bytes]]

\* put_object: the object under the key is created or replaced
PutObject(objects, bucket, key, bytes) ==
    [objects EXCEPT ![bucket] =
        [k \in DOMAIN objects[bucket] \cup {key} |->
            IF k = key THEN bytes ELSE objects[bucket][k]]]

-----------------------------------------------------------------------------
(* S3 template tools: the calls, one S3 request per step *)

Callers == 1..NumCallers

\* template names and bodies the callers pass
Foo == <<"f", "o", "o">>
FooJson == <<"f", "o", "o", ".", "j", "s", "o", "n">>
TemplateNames == {Foo, FooJson, DEFAULT_TEMPLATE_KEY}
TemplateBodies == {<<97, 233>>, <<8364, 128512>>}
RegionArgs == {"None", "us-west-2"}
SessionRegions == {"None", "eu-west-1"}

MAX_KEYS == 1000

NoCall == [op |-> "none"]
NoLocals == [bucket |-> None, key |-> None, keys |-> <<>>, continuation_token |-> None]
NoReturn == [kind |-> "none"]
NoApi == [api |-> "none"]
NoFreshList == [fresh |-> FALSE]

Region(c) == call[c].region
Reg(c) == ResolveRegion(Region(c), sessionRegion)

\* the call returns v
Return(c, v) ==
    /\ tpc' = [tpc EXCEPT ![c] = "idle"]
    /\ ret' = [ret EXCEPT ![c] = [kind |-> "return", value |-> v]]

\* an exception leaves the call
Raise(c, e) ==
    /\ tpc' = [tpc EXCEPT ![c] = "idle"]
    /\ ret' = [ret EXCEPT ![c] = [kind |-> "raise", error |-> e]]

\* where a tool goes on after ensure_templates_bucket returned
AfterEnsure(c) ==
    CASE call[c].op = "list_s3_templates" -> "seed_check"
      [] call[c].op = "save_template" -> "put"
      [] call[c].op = "get_template" -> "get"
      [] call[c].op = "ensure_templates_bucket" -> "ensured"

\* a tool is called: lines 443, 475-479, 508-511
BeginCall(c, op, name, body, region) ==
    /\ c \in active
    /\ tpc[c] = "idle"
    /\ tpc' = [tpc EXCEPT ![c] = "head"]
    /\ LET bucket == get_templates_bucket_name(region, sessionRegion)
       IN call' = [call EXCEPT ![c] =
                      [op |-> op, template_name |-> name, template_body |-> body,
                       region |-> region,
                       emptyAtStart |-> \/ bucket \notin s3Buckets
                                        \/ KeysOf(bucket) = {},
                       headOutcome |-> "unknown",
                       seeded |-> FALSE]]
    /\ loc' = [loc EXCEPT ![c] = NoLocals]
    /\ ret' = [ret EXCEPT ![c] = NoReturn]
    /\ lastApi' = [lastApi EXCEPT ![c] = NoApi]
    /\ UNCHANGED <<sessionRegion, s3Buckets, s3Objects, active, written,
                   freshList>>

\* line 219: ensure_templates_bucket called on its own
ensure_templates_bucket(c, region) ==
    BeginCall(c, "ensure_templates_bucket", None, None, region)

list_s3_templates(c, region) ==
    BeginCall(c, "list_s3_templates", None, None, region)

save_template(c, template_name, template_body, region) ==
    BeginCall(c, "save_template", template_name, template_body, region)

get_template(c, template_name, region) ==
    BeginCall(c, "get_template", template_name, None, region)

\* an ensure_templates_bucket that creates the bucket without probing
HeadBucket_NoProbe(c, outcome) ==
    /\ tpc[c] = "head"
    /\ LET bucket == get_templates_bucket_name(Region(c), sessionRegion)
       IN /\ outcome \in HeadOutcomes(bucket)
          /\ loc' = [loc EXCEPT ![c].bucket = bucket]
          /\ lastApi' = [lastApi EXCEPT ![c] = NoApi]
          /\ tpc' = [tpc EXCEPT ![c] = "create"]
    /\ call' = [call EXCEPT ![c].headOutcome = outcome]
    /\ UNCHANGED <<sessionRegion, s3Buckets, s3Objects, active, ret, written,
                   freshList>>

\* lines 223-229: ensure_templates_bucket up to the head_bucket probe
HeadBucket(c, outcome) ==
    /\ tpc[c] = "head"
    /\ LET bucket == get_templates_bucket_name(Region(c), sessionRegion)
       IN /\ outcome \in HeadOutcomes(bucket)
          /\ loc' = [loc EXCEPT ![c].bucket = bucket]
          /\ lastApi' = [lastApi EXCEPT ![c] =
                            [api |-> "head_bucket", Bucket |-> bucket]]
          /\ tpc' = [tpc EXCEPT ![c] =
                        IF outcome = "None" THEN AfterEnsure(c) ELSE "create"]
    /\ call' = [call EXCEPT ![c].headOutcome = outcome]
    /\ UNCHANGED <<sessionRegion, s3Buckets, s3Objects, active, ret, written,
                   freshList>>

\* an ensure_templates_bucket that takes BucketAlreadyOwnedByYou for success
CreateBucket_AbsorbOwned(c) ==
    /\ tpc[c] = "create"
    /\ LET bucket == loc[c].bucket
       IN /\ lastApi' = [lastApi EXCEPT ![c] = CreateBucketKwargs(bucket, Reg(c))]
          /\ s3Buckets' = s3Buckets \cup {bucket}
          /\ s3Objects' = IF bucket \in s3Buckets THEN s3Objects
                          ELSE [b \in s3Buckets \cup {bucket} |->
                                  IF b = bucket THEN <<>> ELSE s3Objects[b]]
          /\ written' = IF bucket \in s3Buckets THEN written
                        ELSE [b \in s3Buckets \cup {bucket} |->
                                IF b = bucket THEN <<>> ELSE written[b]]
          /\ tpc' = [tpc EXCEPT ![c] = AfterEnsure(c)]
          /\ ret' = ret
    /\ UNCHANGED <<sessionRegion, active, call, loc, freshList>>

\* lines 229-239: the probe failed, create_bucket
CreateBucket(c) ==
    /\ tpc[c] = "create"
    /\ LET bucket == loc[c].bucket
           outcome == CreateBucketOutcome(bucket, Reg(c))
       IN /\ lastApi' = [lastApi EXCEPT ![c] = CreateBucketKwargs(bucket, Reg(c))]
          /\ IF outcome = "None"
             THEN /\ s3Buckets' = s3Buckets \cup {bucket}
                  /\ s3Objects' = IF bucket \in s3Buckets THEN s3Objects
                                  ELSE [b \in s3Buckets \cup {bucket} |->
                                          IF b = bucket THEN <<>> ELSE s3Objects[b]]
                  /\ written' = IF bucket \in s3Buckets THEN written
                                ELSE [b \in s3Buckets \cup {bucket} |->
                                        IF b = bucket THEN <<>> ELSE written[b]]
                  /\ tpc' = [tpc EXCEPT ![c] = AfterEnsure(c)]
                  /\ ret' = ret
             ELSE /\ Raise(c, outcome)
                  /\ UNCHANGED <<s3Buckets, s3Objects, written>>
    /\ UNCHANGED <<sessionRegion, active, call, loc, freshList>>

\* line 239: return bucket_name
EnsureReturn(c) ==
    /\ tpc[c] = "ensured"
    /\ Return(c, [bucket |-> loc[c].bucket])
    /\ UNCHANGED <<sessionRegion, s3Buckets, s3Objects, active, call, loc,
                   lastApi, written, freshList>>

\* a check that takes every bucket for empty
SeedCheck_AlwaysSeed(c) ==
    /\ tpc[c] = "seed_check"
    /\ tpc' = [tpc EXCEPT ![c] = "seed"]
    /\ lastApi' = [lastApi EXCEPT ![c] =
                      [api |-> "list_objects_v2", Bucket |-> loc[c].bucket,
                       MaxKeys |-> 1]]
    /\ UNCHANGED <<sessionRegion, s3Buckets, s3Objects, active, call, loc, ret,
                   written, freshList>>

\* lines 431-433: is there any object in the bucket
SeedCheck(c) ==
    /\ tpc[c] = "seed_check"
    /\ LET resp == ListObjectsV2(loc[c].bucket, None, 1)
       IN tpc' = [tpc EXCEPT ![c] =
                     IF Len(resp.Contents) = 0 THEN "seed" ELSE "page"]
    /\ lastApi' = [lastApi EXCEPT ![c] =
                      [api |-> "list_objects_v2", Bucket |-> loc[c].bucket,
                       MaxKeys |-> 1]]
    /\ UNCHANGED <<sessionRegion, s3Buckets, s3Objects, active, call, loc, ret,
                   written, freshList>>

\* a list_s3_templates that finds the bucket empty and writes nothing
Seed_Skipped(c) ==
    /\ tpc[c] = "seed"
    /\ tpc' = [tpc EXCEPT ![c] = "page"]
    /\ UNCHANGED <<sessionRegion, s3Buckets, s3Objects, active, call, loc, ret,
                   lastApi, written, freshList>>

\* a seeding that writes under a key of the caller's own
Seed_PerCaller(c) ==
    /\ tpc[c] = "seed"
    /\ LET key == DEFAULT_TEMPLATE_KEY \o <<Alphabet[c + 2]>>
       IN /\ s3Objects' = PutObject(s3Objects, loc[c].bucket, key,
                                    Utf8Encode(DefaultTemplate))
          /\ written' = Remember(written, loc[c].bucket, key, DefaultTemplate)
          /\ lastApi' = [lastApi EXCEPT ![c] =
                            [api |-> "put_object", Bucket |-> loc[c].bucket,
                             Key |-> key, Body |-> Utf8Encode(DefaultTemplate)]]
    /\ tpc' = [tpc EXCEPT ![c] = "page"]
    /\ call' = [call EXCEPT ![c].seeded = TRUE]
    /\ UNCHANGED <<sessionRegion, s3Buckets, active, loc, ret, freshList>>

\* lines 434-438: seed the default template
Seed(c) ==
    /\ tpc[c] = "seed"
    /\ s3Objects' = PutObject(s3Objects, loc[c].bucket, DEFAULT_TEMPLATE_KEY,
                              Utf8Encode(DefaultTemplate))
    /\ written' = Remember(written, loc[c].bucket, DEFAULT_TEMPLATE_KEY,
                           DefaultTemplate)
    /\ lastApi' = [lastApi EXCEPT ![c] =
                      [api |-> "put_object", Bucket |-> loc[c].bucket,
                       Key |-> DEFAULT_TEMPLATE_KEY,
                       Body |-> Utf8Encode(DefaultTemplate)]]
    /\ tpc' = [tpc EXCEPT ![c] = "page"]
    /\ call' = [call EXCEPT ![c].seeded = TRUE]
    /\ UNCHANGED <<sessionRegion, s3Buckets, active, loc, ret, freshList>>

\* a loop that stops after the first page
MorePages_Never(resp) == FALSE

\* lines 463-464: the loop goes on while the listing is truncated
MorePages(resp) == resp.IsTruncated

\* lines 454-471: one iteration of the pagination loop; n is the number of
\* keys the provider puts on the page
ListPage(c, n) ==
    /\ tpc[c] = "page"
    /\ n \in 1..Min(MAX_KEYS, MaxPageKeys)
    /\ LET token == loc[c].continuation_token
           resp == ListObjectsV2(loc[c].bucket, token, n)
           keys == loc[c].keys \o resp.Contents
       IN /\ lastApi' = [lastApi EXCEPT ![c] =
                            IF token # None
                            THEN [api |-> "list_objects_v2", Bucket |-> loc[c].bucket,
                                  MaxKeys |-> MAX_KEYS, ContinuationToken |-> token]
                            ELSE [api |-> "list_objects_v2", Bucket |-> loc[c].bucket,
                                  MaxKeys |-> MAX_KEYS]]
          /\ IF ~MorePages(resp)
             THEN /\ Return(c, [bucket |-> loc[c].bucket, templates |-> keys])
                  /\ loc' = [loc EXCEPT ![c].keys = keys]
                  /\ freshList' = [freshList EXCEPT ![c] =
                        IF call[c].emptyAtStart
                        THEN [fresh |-> TRUE, bucket |-> loc[c].bucket,
                              templates |-> keys]
                        ELSE NoFreshList]
             ELSE /\ loc' = [loc EXCEPT ![c].keys = keys,
                                        ![c].continuation_token =
                                            resp.NextContinuationToken]
                  /\ UNCHANGED <<tpc, ret, freshList>>
    /\ UNCHANGED <<sessionRegion, s3Buckets, s3Objects, active, call, written>>

\* a save_template that also puts the default template into an empty bucket
SavePut_AlsoSeeds(c) ==
    /\ tpc[c] = "put"
    /\ LET key == save_template_key(call[c].template_name)
           bytes == Utf8Encode(call[c].template_body)
           seeded == IF KeysOf(loc[c].bucket) = {}
                     THEN PutObject(s3Objects, loc[c].bucket, DEFAULT_TEMPLATE_KEY,
                                    Utf8Encode(DefaultTemplate))
                     ELSE s3Objects
       IN /\ s3Objects' = PutObject(seeded, loc[c].bucket, key, bytes)
          /\ written' = Remember(written, loc[c].bucket, key, call[c].template_body)
          /\ lastApi' = [lastApi EXCEPT ![c] =
                            [api |-> "put_object", Bucket |-> loc[c].bucket,
                             Key |-> key, Body |-> bytes]]
          /\ loc' = [loc EXCEPT ![c].key = key]
          /\ Return(c, [bucket |-> loc[c].bucket, key |-> key, status |-> "SAVED"])
    /\ freshList' = [freshList EXCEPT ![c] = NoFreshList]
    /\ UNCHANGED <<sessionRegion, s3Buckets, active, call>>

\* lines 489-504: save_template after ensure_templates_bucket
SavePut(c) ==
    /\ tpc[c] = "put"
    /\ LET key == save_template_key(call[c].template_name)
           bytes == Utf8Encode(call[c].template_body)
       IN /\ s3Objects' = PutObject(s3Objects, loc[c].bucket, key, bytes)
          /\ written' = Remember(written, loc[c].bucket, key, call[c].template_body)
          /\ lastApi' = [lastApi EXCEPT ![c] =
                            [api |-> "put_object", Bucket |-> loc[c].bucket,
                             Key |-> key, Body |-> bytes]]
          /\ loc' = [loc EXCEPT ![c].key = key]
          /\ Return(c, [bucket |-> loc[c].bucket, key |-> key, status |-> "SAVED"])
    /\ freshList' = [freshList EXCEPT ![c] = NoFreshList]
    /\ UNCHANGED <<sessionRegion, s3Buckets, active, call>>

\* a get_template that answers an absent key with an empty body
GetObject_EmptyOnMissing(c) ==
    /\ tpc[c] = "get"
    /\ LET key == get_template_key(call[c].template_name)
           bucket == loc[c].bucket
       IN /\ lastApi' = [lastApi EXCEPT ![c] =
                            [api |-> "get_object", Bucket |-> bucket, Key |-> key]]
          /\ loc' = [loc EXCEPT ![c].key = key]
          /\ Return(c, [bucket |-> bucket, key |-> key,
                        template_body |-> IF key \in KeysOf(bucket)
                                          THEN Utf8Decode(s3Objects[bucket][key])
                                          ELSE <<>>])
    /\ UNCHANGED <<sessionRegion, s3Buckets, s3Objects, active, call, written,
                   freshList>>

\* lines 521-533: get_template after ensure_templates_bucket
GetObject(c) ==
    /\ tpc[c] = "get"
    /\ LET key == get_template_key(call[c].template_name)
           bucket == loc[c].bucket
       IN /\ lastApi' = [lastApi EXCEPT ![c] =
                            [api |-> "get_object", Bucket |-> bucket, Key |-> key]]
          /\ loc' = [loc EXCEPT ![c].key = key]
          /\ IF key \in KeysOf(bucket)
             THEN Return(c, [bucket |-> bucket, key |-> key,
                             template_body |-> Utf8Decode(s3Objects[bucket][key])])
             ELSE Raise(c, "NoSuchKey")
    /\ UNCHANGED <<sessionRegion, s3Buckets, s3Objects, active, call, written,
                   freshList>>

TemplateStep ==
    \/ \E c \in Callers, r \in RegionArgs : ensure_templates_bucket(c, r)
    \/ \E c \in Callers : EnsureReturn(c)
    \/ \E c \in Callers, r \in RegionArgs : list_s3_templates(c, r)
    \/ \E c \in Callers, n \in TemplateNames, b \in TemplateBodies, r \in RegionArgs :
          save_template(c, n, b, r)
    \/ \E c \in Callers, n \in TemplateNames, r \in RegionArgs : get_template(c, n, r)
    \/ \E c \in Callers, o \in {"None", "Forbidden", "NotFound"} : HeadBucket(c, o)
    \/ \E c \in Callers : CreateBucket(c)
    \/ \E c \in Callers : SeedCheck(c)
    \/ \E c \in Callers : Seed(c)
    \/ \E c \in Callers, n \in 1..MaxPageKeys : ListPage(c, n)
    \/ \E c \in Callers : SavePut(c)
    \/ \E c \in Callers : GetObject(c)

\* the buckets and objects the templates account can hold before a call
TemplateInit(callers) ==
    /\ sessionRegion \in SessionRegions
    /\ s3Buckets = {}
    /\ s3Objects = <<>>
    /\ active = callers
    /\ tpc = [c \in Callers |-> "idle"]
    /\ call = [c \in Callers |-> NoCall]
    /\ loc = [c \in Callers |-> NoLocals]
    /\ ret = [c \in Callers |-> NoReturn]
    /\ lastApi = [c \in Callers |-> NoApi]
    /\ written = <<>>
    /\ freshList = [c \in Callers |-> NoFreshList]
-----------------------------------------------------------------------------
(* invoke_bedrock_flow *)

\* Python None where a dict or a document is expected
PyNone == [py_none |-> TRUE]
\* Python None where a str is expected
NoneStr == "None"

EmptyDict == <<>>

\* a dict with the single item k: v
Dict1(k, v) == [x \in {k} |-> v]

\* isinstance(v, dict)
IsDict(v) == v # PyNone

\* d.get(k, default)
DictGet(d, k, default) == IF k \in DOMAIN d THEN d[k] ELSE default

\* an update that keeps the value a key already has
DictUpdate_KeepFirst(d, e) ==
    [k \in DOMAIN d \cup DOMAIN e |-> IF k \in DOMAIN d THEN d[k] ELSE e[k]]

\* line 166: aggregated.update(event)
DictUpdate(d, e) ==
    [k \in DOMAIN d \cup DOMAIN e |-> IF k \in DOMAIN e THEN e[k] ELSE d[k]]

Documents == {[x |-> 1], [x |-> 2]}

CompletionEvents ==
    {Dict1("flowCompletionEvent", [completionReason |-> r]) :
        r \in {"SUCCESS", "INPUT_REQUIRED"}}

OutputEvents ==
    {Dict1("flowOutputEvent", [content |-> [document |-> d], nodeName |-> "out"]) :
        d \in Documents}
    \cup {Dict1("flowOutputEvent", [nodeName |-> "out"])}

TraceEvents == {Dict1("flowTraceEvent", [trace |-> "nodeOutput"])}

\* the events the runtime can put on the response stream
FlowEvents == CompletionEvents \cup OutputEvents \cup TraceEvents

RECURSIVE SeqsUpTo(_, _)
SeqsUpTo(S, n) ==
    IF n = 0 THEN {<<>>}
    ELSE LET shorter == SeqsUpTo(S, n - 1)
         IN shorter \cup {Append(q, e) : q \in {r \in shorter : Len(r) = n - 1}, e \in S}

ResponseStreams == SeqsUpTo(FlowEvents, MaxStreamLen)

NoFlowResult ==
    [completion_reason |-> NoneStr, output_document |-> PyNone, raw_events |-> <<>>]

\* lines 168, 171-173
CompletionReason(agg) ==
    LET flow_completion == DictGet(agg, "flowCompletionEvent", PyNone)
    IN IF IsDict(flow_completion)
       THEN DictGet(flow_completion, "completionReason", NoneStr)
       ELSE NoneStr

\* an extraction that returns the event's content instead of its document
OutputDocument_Content(agg) ==
    LET flow_output == DictGet(agg, "flowOutputEvent", PyNone)
    IN IF IsDict(flow_output)
       THEN DictGet(flow_output, "content", PyNone)
       ELSE PyNone

\* lines 169, 175-177
OutputDocument(agg) ==
    LET flow_output == DictGet(agg, "flowOutputEvent", PyNone)
    IN IF IsDict(flow_output)
       THEN DictGet(DictGet(flow_output, "content", EmptyDict), "document", PyNone)
       ELSE PyNone

\* lines 139-162: the request is sent, the response arrives
invoke_bedrock_flow(stream) ==
    /\ fpc = "idle"
    /\ responseStream' = stream
    /\ unread' = stream
    /\ raw_events' = <<>>
    /\ aggregated' = EmptyDict
    /\ fpc' = "stream"
    /\ UNCHANGED flowResult

\* lines 164-166: one iteration over the response stream
ConsumeEvent ==
    /\ fpc = "stream"
    /\ Len(unread) > 0
    /\ raw_events' = Append(raw_events, Head(unread))
    /\ aggregated' = DictUpdate(aggregated, Head(unread))
    /\ unread' = Tail(unread)
    /\ UNCHANGED <<fpc, responseStream, flowResult>>

\* lines 168-189: the stream has ended
FinishInvoke ==
    /\ fpc = "stream"
    /\ Len(unread) = 0
    /\ flowResult' = [completion_reason |-> CompletionReason(aggregated),
                      output_document |-> OutputDocument(aggregated),
                      raw_events |-> raw_events]
    /\ fpc' = "returned"
    /\ UNCHANGED <<responseStream, unread, raw_events, aggregated>>

FlowStep ==
    \/ \E stream \in ResponseStreams : invoke_bedrock_flow(stream)
    \/ ConsumeEvent
    \/ FinishInvoke

FlowInit ==
    /\ fpc = "idle"
    /\ responseStream = <<>>
    /\ unread = <<>>
    /\ raw_events = <<>>
    /\ aggregated = EmptyDict
    /\ flowResult = NoFlowResult

-----------------------------------------------------------------------------
(* Specifications *)

\* one deploy_bedrock_flow_stack call against the CloudFormation service
IdemInit == phase = 0 /\ prev = [op |-> "none"]

InitDeploy ==
    DeployInit /\ TemplateInit({}) /\ sessionRegion = "None" /\ FlowInit /\ IdemInit
NextDeploy == DeployStep /\ UNCHANGED <<templateVars, flowVars, idemVars>>
SpecDeploy == InitDeploy /\ [][NextDeploy]_vars

\* one caller using the template tools, one call after the other
InitTemplates ==
    TemplateInit({1}) /\ DeployInit /\ cfnStack = Absent /\ FlowInit /\ IdemInit
NextTemplates == TemplateStep /\ UNCHANGED <<deployVars, flowVars, idemVars>>
SpecTemplates == InitTemplates /\ [][NextTemplates]_vars

\* every caller runs list_s3_templates, again and again, at the same time as
\* the others; the buckets are absent or empty at first and nobody saves
InitListRace ==
    /\ sessionRegion \in SessionRegions
    /\ s3Buckets \in SUBSET {get_templates_bucket_name(r, sessionRegion) :
                                r \in RegionArgs}
    /\ s3Objects = [b \in s3Buckets |-> <<>>]
    /\ written = [b \in s3Buckets |-> <<>>]
    /\ active = Callers
    /\ tpc = [c \in Callers |-> "idle"]
    /\ call = [c \in Callers |-> NoCall]
    /\ loc = [c \in Callers |-> NoLocals]
    /\ ret = [c \in Callers |-> NoReturn]
    /\ lastApi = [c \in Callers |-> NoApi]
    /\ freshList = [c \in Callers |-> NoFreshList]
    /\ DeployInit /\ cfnStack = Absent /\ FlowInit /\ IdemInit

ListRaceStep ==
    \/ \E c \in Callers, r \in RegionArgs : list_s3_templates(c, r)
    \/ \E c \in Callers, o \in {"None", "Forbidden", "NotFound"} : HeadBucket(c, o)
    \/ \E c \in Callers : CreateBucket(c)
    \/ \E c \in Callers : SeedCheck(c)
    \/ \E c \in Callers : Seed(c)
    \/ \E c \in Callers, n \in 1..MaxPageKeys : ListPage(c, n)

NextListRace == ListRaceStep /\ UNCHANGED <<deployVars, flowVars, idemVars>>
SpecListRace == InitListRace /\ [][NextListRace]_vars

\* every caller runs ensure_templates_bucket, again and again, at the same
\* time as the others; no bucket exists at first
InitEnsureRace ==
    TemplateInit(Callers) /\ DeployInit /\ cfnStack = Absent /\ FlowInit /\ IdemInit

EnsureRaceStep ==
    \/ \E c \in Callers, r \in RegionArgs : ensure_templates_bucket(c, r)
    \/ \E c \in Callers, o \in {"None", "Forbidden", "NotFound"} : HeadBucket(c, o)
    \/ \E c \in Callers : CreateBucket(c)
    \/ \E c \in Callers : EnsureReturn(c)

NextEnsureRace == EnsureRaceStep /\ UNCHANGED <<deployVars, flowVars, idemVars>>
SpecEnsureRace == InitEnsureRace /\ [][NextEnsureRace]_vars

\* caller 1 makes one save_template call while every other caller makes one
\* list_s3_templates call; the buckets are absent or empty at first
Saver == 1
Listers == Callers \ {Saver}

InitSaveRace == InitListRace

SaveRaceStep ==
    \/ \E n \in TemplateNames, b \in TemplateBodies, r \in RegionArgs :
          call[Saver] = NoCall /\ save_template(Saver, n, b, r)
    \/ \E c \in Listers, r \in RegionArgs :
          call[c] = NoCall /\ list_s3_templates(c, r)
    \/ \E c \in Callers, o \in {"None", "Forbidden", "NotFound"} : HeadBucket(c, o)
    \/ \E c \in Callers : CreateBucket(c)
    \/ \E c \in Callers : SeedCheck(c)
    \/ \E c \in Callers : Seed(c)
    \/ \E c \in Callers, n \in 1..MaxPageKeys : ListPage(c, n)
    \/ \E c \in Callers : SavePut(c)

NextSaveRace == SaveRaceStep /\ UNCHANGED <<deployVars, flowVars, idemVars>>
SpecSaveRace == InitSaveRace /\ [][NextSaveRace]_vars

\* the same call when the interpreter keeps running it: every statement of
\* deploy_bedrock_flow_stack is reached once the one before it has ended
\* (each provider call returns or raises, time.sleep returns), and the wall
\* clock goes on
CallStep ==
    \/ \E o \in ClientErrorCodes \cup OtherErrors \cup {"None"} : Probe(o)
    \/ \E o \in ClientErrorCodes \cup {"None"} : CreateStack(o)
    \/ \E o \in ClientErrorCodes \cup {"None"} : UpdateStack(o)
    \/ DeadlineCheck
    \/ \E o \in {"None", "Throttling"} : DescribeStacks(o)
    \/ \E o \in {"None", "Throttling"} : DescribeStackEvents(o)
    \/ TerminalCheck
    \/ Sleep

\* short deadlines and a new or freshly created stack
LiveTimeouts == {0, 2}

InitDeployLive ==
    /\ InitDeploy
    /\ cfnStack \in {Absent, CREATE_COMPLETE}
    /\ Len(stackEvents) <= 1

DeployLiveStep ==
    \/ \E t \in LiveTimeouts, p \in PollIntervals : deploy_bedrock_flow_stack(t, p)
    \/ CallStep
    \/ Tick
    \/ \E s \in AllStatuses : StackProgress(s)
    \/ ExternalDelete

NextDeployLive == DeployLiveStep /\ UNCHANGED <<templateVars, flowVars, idemVars>>

SpecDeployLive ==
    /\ InitDeployLive
    /\ [][NextDeployLive]_vars
    /\ WF_vars(CallStep /\ UNCHANGED <<templateVars, flowVars, idemVars>>)
    /\ WF_vars(Tick /\ UNCHANGED <<templateVars, flowVars, idemVars>>)

\* one caller using the template tools; at some point one of its calls to
\* ensure_templates_bucket, list_s3_templates or get_template is chosen and
\* the caller's next call is the same call with the same arguments
IdempotentOps == {"ensure_templates_bucket", "list_s3_templates", "get_template"}

ArgsOf(cl) ==
    [op |-> cl.op, template_name |-> cl.template_name, region |-> cl.region]

\* the chosen call as it ended the first time
Snapshot ==
    [op |-> call'[1].op,
     args |-> ArgsOf(call'[1]),
     ret |-> ret'[1],
     buckets |-> s3Buckets',
     objects |-> s3Objects',
     probeFault |-> call'[1].headOutcome = "Forbidden"]

InitTwice == InitTemplates

NextTwice ==
    /\ phase < 2
    /\ TemplateStep
    /\ IF tpc[1] = "idle"
       THEN /\ phase = 1 => ArgsOf(call'[1]) = prev.args
            /\ UNCHANGED idemVars
       ELSE IF tpc'[1] = "idle"
       THEN \/ phase = 0 /\ UNCHANGED idemVars
            \/ /\ phase = 0
               /\ call[1].op \in IdempotentOps
               /\ phase' = 1
               /\ prev' = Snapshot
            \/ phase = 1 /\ phase' = 2 /\ prev' = prev
       ELSE UNCHANGED idemVars
    /\ UNCHANGED <<deployVars, flowVars>>

SpecTwice == InitTwice /\ [][NextTwice]_vars

\* one invoke_bedrock_flow call
InitInvoke ==
    FlowInit /\ DeployInit /\ cfnStack = Absent /\ TemplateInit({})
    /\ sessionRegion = "None" /\ IdemInit
NextInvoke == FlowStep /\ UNCHANGED <<deployVars, templateVars, idemVars>>
SpecInvoke == InitInvoke /\ [][NextInvoke]_vars

-----------------------------------------------------------------------------
(* Claims about deploy_bedrock_flow_stack (checked under SpecDeploy) *)

Returned == pc = "returned"

\* C1: every non-TIMEOUT result has status SUCCESS iff final_stack_status is
\* CREATE_COMPLETE or UPDATE_COMPLETE, and FAILED for every other terminal
\* status (ROLLBACK_COMPLETE and UPDATE_ROLLBACK_COMPLETE among them).
C1_SuccessIffNonRollbackComplete ==
    (Returned /\ result.status # "TIMEOUT") =>
        /\ result.status \in {"SUCCESS", "FAILED"}
        /\ result.status = "SUCCESS" <=>
              result.final_stack_status \in {CREATE_COMPLETE, UPDATE_COMPLETE}

\* C2: in every call that returns a result, a stack absent at the probe
\* means create_stack was issued and action is CREATE; a stack present at
\* the probe means update_stack was issued and action is UPDATE.
C2_ActionMatchesExistence ==
    Returned =>
        IF existedAtProbe
        THEN issued = <<"update_stack">> /\ result.action = "UPDATE"
        ELSE issued = <<"create_stack">> /\ result.action = "CREATE"

\* C3 (as stated): if elapsed time exceeded timeout_seconds at a moment when
\* no poll had observed a terminal status, the result is TIMEOUT and its
\* status_reason contains timeout_seconds.
C3_TimeoutWheneverExpiredUnobserved ==
    (Returned /\ expiredUnobserved) =>
        /\ result.status = "TIMEOUT"
        /\ Contains(result.status_reason, Str(timeout_seconds))

\* C3 (amended): when the deadline check at the top of a poll iteration
\* finds elapsed time above timeout_seconds, the call returns TIMEOUT at
\* once and the status_reason contains timeout_seconds.
C3_TimeoutAtDeadlineCheck ==
    [][(pc = "loop" /\ now - start > timeout_seconds /\ pc' # pc) =>
          /\ pc' = "returned"
          /\ result'.status = "TIMEOUT"
          /\ Contains(result'.status_reason, Str(timeout_seconds))]_vars

C3_Witness ==
    /\ Returned
    /\ result.status = "TIMEOUT"
    /\ polls > 0
    /\ timeout_seconds = MaxTimeout

\* C4: once create_stack or update_stack has raised, the call has ended
\* with that error: nothing was polled and no result was returned.
C4_MutateErrorPropagates ==
    mutateError # "None" =>
        /\ pc = "raised"
        /\ exc = mutateError
        /\ polls = 0
        /\ result = NoResult

C4_Witness ==
    /\ pc = "raised"
    /\ mutateError = "ValidationError"
    /\ issued = <<"update_stack">>

\* C5: only the not-found error of the probe is taken as "the stack does
\* not exist"; after any other probe error no create_stack call is issued.
C5_OnlyNotFoundAbsorbed ==
    probeError \notin {"None", "ValidationError"} => issued = <<>>

\* C6: in the poll loop a status outside the seven terminal statuses always
\* leads to the sleep and from there to the next iteration, so a SUCCESS or
\* FAILED result always carries a terminal final_stack_status.
C6_NonTerminalPollsAgain ==
    /\ []((Returned /\ result.status \in {"SUCCESS", "FAILED"}) =>
             result.final_stack_status \in TERMINAL_STATUSES)
    /\ [][(pc = "check" /\ final_stack_status \notin TERMINAL_STATUSES /\ pc' # pc)
             => pc' = "sleep"]_vars
    /\ [][(pc = "sleep" /\ pc' # pc) => pc' = "loop"]_vars

C6_Witness ==
    /\ Returned
    /\ result.status \in {"SUCCESS", "FAILED"}
    /\ polls >= 2

-----------------------------------------------------------------------------
(* Claims about the template tools (checked under SpecTemplates) *)

Returns(c, op) == call[c].op = op /\ ret[c].kind = "return"

FooYaml == <<"f", "o", "o", ".", "y", "a", "m", "l">>

\* the rule of claim C7, written out
KeyRule(name) ==
    IF \A i \in 1..Len(name) : name[i] # "." THEN name \o <<".", "y", "a", "m", "l">>
    ELSE name

\* C7: get_template and save_template map a name to its key by one rule,
\* name + ".yaml" when the name has no "." and the name itself otherwise
\* ("foo" -> "foo.yaml", "foo.json" -> "foo.json"), and the key in the
\* result is the key of the object read or written.
C7_SameKeyRule ==
    \A c \in Callers :
        /\ (Returns(c, "save_template") \/ Returns(c, "get_template")) =>
              /\ ret[c].value.key = KeyRule(call[c].template_name)
              /\ call[c].template_name = Foo => ret[c].value.key = FooYaml
              /\ call[c].template_name = FooJson => ret[c].value.key = FooJson
              /\ lastApi[c].api =
                    (IF call[c].op = "save_template" THEN "put_object" ELSE "get_object")
              /\ lastApi[c].Key = ret[c].value.key
        /\ lastApi[c].api = "get_object" =>
              lastApi[c].Key = KeyRule(call[c].template_name)

C7_Witness ==
    /\ Returns(1, "get_template")
    /\ call[1].template_name = Foo
    /\ ret[1].value.key = FooYaml

\* C8: list_s3_templates begun on an absent or empty bucket, with no other
\* writer, returns the one name 'simple-bedrock-flow.yaml', and a following
\* get_template of that name returns the text of get_default_template.
C8_FreshListSeedsDefault ==
    \A c \in Callers :
        /\ (Returns(c, "list_s3_templates") /\ call[c].emptyAtStart) =>
              ret[c].value.templates = <<DEFAULT_TEMPLATE_KEY>>
        /\ (/\ call[c].op = "get_template"
            /\ ret[c].kind # "none"
            /\ freshList[c].fresh
            /\ loc[c].bucket = freshList[c].bucket
            /\ \E i \in 1..Len(freshList[c].templates) :
                  freshList[c].templates[i] = call[c].template_name) =>
              \/ /\ ret[c].kind = "return"
                 /\ ret[c].value.template_body = get_default_template
              \/ /\ ret[c].kind = "raise"
                 /\ ret[c].error = "BucketAlreadyOwnedByYou"

C8_Witness ==
    /\ Returns(1, "get_template")
    /\ freshList[1].fresh
    /\ freshList[1].templates = <<DEFAULT_TEMPLATE_KEY>>
    /\ loc[1].bucket = freshList[1].bucket
    /\ call[1].template_name = DEFAULT_TEMPLATE_KEY
    /\ ret[1].value.template_body = DefaultTemplate

\* C9: a get_template returns the body of the latest save_template to the
\* same key, whatever was saved there before: save then get gives back the
\* body saved, and of two saves the later one wins.
C9_GetReturnsLastSaved ==
    \A c \in Callers :
        Returns(c, "get_template") =>
            ret[c].value.template_body = written[ret[c].value.bucket][ret[c].value.key]

\* a get_template returns a body that save_template stored under "foo.yaml"
C9_Witness ==
    /\ Returns(1, "get_template")
    /\ call[1].template_name = Foo
    /\ ret[1].value.template_body = <<8364, 128512>>
    /\ freshList[1].fresh = FALSE

-----------------------------------------------------------------------------
(* Claims about invoke_bedrock_flow (checked under SpecInvoke) *)

\* the positions of the events of the stream that have top-level key k
EventsWith(k) == {i \in 1..Len(responseStream) : k \in DOMAIN responseStream[i]}

\* C10: the result's completion_reason is the completionReason of the
\* stream's completion event and its output_document is the document in the
\* content of the stream's output event; with neither event in the stream
\* both are null.
C10_ExtractsCompletionAndOutput ==
    fpc = "returned" =>
        /\ \A i \in EventsWith("flowCompletionEvent") :
              EventsWith("flowCompletionEvent") = {i} =>
                 flowResult.completion_reason =
                    responseStream[i]["flowCompletionEvent"].completionReason
        /\ \A i \in EventsWith("flowOutputEvent") :
              (/\ EventsWith("flowOutputEvent") = {i}
               /\ "content" \in DOMAIN responseStream[i]["flowOutputEvent"]) =>
                 flowResult.output_document =
                    responseStream[i]["flowOutputEvent"].content.document
        /\ (EventsWith("flowCompletionEvent") = {} /\ EventsWith("flowOutputEvent") = {}) =>
              /\ flowResult.completion_reason = NoneStr
              /\ flowResult.output_document = PyNone

C10_Witness ==
    /\ fpc = "returned"
    /\ Cardinality(EventsWith("flowCompletionEvent")) = 1
    /\ Cardinality(EventsWith("flowOutputEvent")) = 1
    /\ flowResult.completion_reason = "SUCCESS"
    /\ flowResult.output_document = [x |-> 1]

-----------------------------------------------------------------------------
(* Further claims about the template tools (checked under SpecTemplates) *)

\* the step changes no object of a bucket that existed before it
ObjectsKept ==
    \A b \in s3Buckets : b \in s3Buckets' /\ s3Objects'[b] = s3Objects[b]

\* the objects of bucket b with the default template put under its key
WithDefault(b) ==
    [k \in DOMAIN s3Objects[b] \cup {DEFAULT_TEMPLATE_KEY} |->
        IF k = DEFAULT_TEMPLATE_KEY THEN Utf8Encode(DefaultTemplate)
        ELSE s3Objects[b][k]]

-----------------------------------------------------------------------------
(* Claims about concurrent list_s3_templates calls (checked under SpecListRace) *)

AllIdle == \A c \in Callers : tpc[c] = "idle"

\* C12: however concurrent list_s3_templates calls on an empty bucket
\* interleave, once all of them have ended the bucket of every call that
\* returned holds one object, the default template under the default key.
C12_RaceLeavesOneDefault ==
    AllIdle =>
        \A c \in Callers :
            Returns(c, "list_s3_templates") =>
                /\ DOMAIN s3Objects[ret[c].value.bucket] = {DEFAULT_TEMPLATE_KEY}
                /\ Utf8Decode(s3Objects[ret[c].value.bucket][DEFAULT_TEMPLATE_KEY])
                      = get_default_template

\* two callers both found the same bucket empty and both wrote the default
C12_Witness ==
    /\ AllIdle
    /\ Returns(1, "list_s3_templates") /\ call[1].seeded
    /\ Returns(2, "list_s3_templates") /\ call[2].seeded
    /\ ret[1].value.bucket = ret[2].value.bucket

-----------------------------------------------------------------------------
(* Claims about repeated template calls (checked under SpecTwice) *)

\* C13: ensure_templates_bucket, list_s3_templates and get_template, run
\* twice in succession with the same arguments and a head_bucket probe that
\* answers truthfully both times, end the second time as they ended the
\* first time and leave the buckets and objects as the first run left them.
C13_SecondRunChangesNothing ==
    (phase = 2 /\ ~prev.probeFault /\ call[1].headOutcome # "Forbidden") =>
        /\ ret[1] = prev.ret
        /\ s3Buckets = prev.buckets
        /\ s3Objects = prev.objects

\* list_s3_templates created and seeded the bucket, then ran again
C13_Witness ==
    /\ phase = 2
    /\ prev.op = "list_s3_templates"
    /\ prev.ret.kind = "return"
    /\ prev.ret.value.templates = <<DEFAULT_TEMPLATE_KEY>>
    /\ Returns(1, "list_s3_templates")
    /\ ~call[1].seeded
    /\ call[1].region = "us-west-2"

-----------------------------------------------------------------------------
(* Claims about pagination and absent keys (checked under SpecTemplates) *)

\* the request of the pagination loop, as opposed to the emptiness check
IsPageRequest(api) == api.api = "list_objects_v2" /\ api.MaxKeys = MAX_KEYS

Last(seq) == seq[Len(seq)]

Range(seq) == {seq[i] : i \in 1..Len(seq)}

\* C14: every request of the pagination loop after the first carries the
\* continuation token of the page before it (the last key listed so far),
\* the loop ends exactly when a page leaves no key of the bucket unlisted,
\* and with no other writer the list returned holds every key of the bucket
\* exactly once.
C14_PagesCoverBucket ==
    /\ [][\A c \in Callers : tpc[c] = "page" =>
            /\ IsPageRequest(lastApi'[c])
            /\ IF loc[c].keys = <<>>
               THEN "ContinuationToken" \notin DOMAIN lastApi'[c]
               ELSE /\ "ContinuationToken" \in DOMAIN lastApi'[c]
                    /\ lastApi'[c].ContinuationToken = Last(loc[c].keys)
            /\ tpc'[c] = "idle" <=> Range(loc'[c].keys) = KeysOf(loc[c].bucket)]_vars
    /\ [](\A c \in Callers : Returns(c, "list_s3_templates") =>
            LET templates == ret[c].value.templates
            IN /\ Range(templates) = KeysOf(ret[c].value.bucket)
               /\ Len(templates) = Cardinality(KeysOf(ret[c].value.bucket)))

\* three keys listed over more than one page
C14_Witness ==
    /\ Returns(1, "list_s3_templates")
    /\ Len(ret[1].value.templates) = 3
    /\ "ContinuationToken" \in DOMAIN lastApi[1]
    /\ lastApi[1].ContinuationToken = ret[1].value.templates[2]

\* C15: get_template of a name whose key is not in the bucket ends with the
\* provider's NoSuchKey raised to the caller, returns no result, and no step
\* of a get_template call creates or changes an object.
C15_AbsentKeyRaises ==
    /\ [][\A c \in Callers :
            (tpc[c] = "get" /\ KeyRule(call[c].template_name) \notin KeysOf(loc[c].bucket)) =>
                /\ tpc'[c] = "idle"
                /\ ret'[c] = [kind |-> "raise", error |-> "NoSuchKey"]]_vars
    /\ [][\A c \in Callers :
            (call[c].op = "get_template" /\ tpc[c] # "idle") =>
                /\ ObjectsKept
                /\ \A b \in s3Buckets' \ s3Buckets : s3Objects'[b] = <<>>]_vars

\* foo.yaml is asked for in a bucket that holds other templates only
C15_Witness ==
    /\ call[1].op = "get_template"
    /\ call[1].template_name = Foo
    /\ ret[1] = [kind |-> "raise", error |-> "NoSuchKey"]
    /\ lastApi[1].api = "get_object"
    /\ KeysOf(lastApi[1].Bucket) = {FooJson, DEFAULT_TEMPLATE_KEY}

\* the region a call resolves to: its argument, else the session's region,
\* else us-east-1
ResolvedRegion(c) ==
    IF call[c].region \notin {"None", ""} THEN call[c].region
    ELSE IF sessionRegion \notin {"None", ""} THEN sessionRegion
    ELSE "us-east-1"

\* C20: create_bucket is requested only after a head_bucket probe that
\* failed and never after one that succeeded; the request names a
\* LocationConstraint, the resolved region, exactly when that region is not
\* us-east-1; the bucket name returned is
\* bedrock-flow-templates-<account>-<resolved region>.
C20_CreateOnlyAfterFailedProbe ==
    /\ [][\A c \in Callers : tpc[c] = "head" =>
            /\ call'[c].headOutcome = "None" => tpc'[c] \notin {"create", "idle"}
            /\ call'[c].headOutcome # "None" => tpc'[c] = "create"]_vars
    /\ [][\A c \in Callers :
            (lastApi'[c] # lastApi[c] /\ lastApi'[c].api = "create_bucket") =>
                /\ lastApi[c].api = "head_bucket"
                /\ call[c].headOutcome \in {"NotFound", "Forbidden"}
                /\ lastApi'[c].Bucket = lastApi[c].Bucket
                /\ IF ResolvedRegion(c) # "us-east-1"
                   THEN /\ "LocationConstraint" \in DOMAIN lastApi'[c]
                        /\ lastApi'[c].LocationConstraint = ResolvedRegion(c)
                   ELSE "LocationConstraint" \notin DOMAIN lastApi'[c]]_vars
    /\ [][\A b \in s3Buckets' \ s3Buckets : \E c \in Callers :
            lastApi'[c] # lastApi[c] /\ lastApi'[c].api = "create_bucket"
            /\ lastApi'[c].Bucket = b]_vars
    /\ [](\A c \in Callers : Returns(c, "ensure_templates_bucket") =>
            ret[c].value.bucket =
                <<"bedrock-flow-templates", "-", AccountId, "-", ResolvedRegion(c)>>)

\* no region given or configured: the bucket is created in us-east-1
C20_Witness ==
    /\ Returns(1, "ensure_templates_bucket")
    /\ call[1].region = "None"
    /\ sessionRegion = "None"
    /\ call[1].headOutcome = "NotFound"
    /\ lastApi[1] = [api |-> "create_bucket", Bucket |-> ret[1].value.bucket]
    /\ ret[1].value.bucket \in s3Buckets

-----------------------------------------------------------------------------
(* Claims about the order and timing of a deploy (checked under SpecDeploy) *)

InLoop == pc \in {"loop", "describe", "events", "check", "sleep"}

\* C16: a deploy call issues create_stack or update_stack at most once, a
\* call that got past its probe and into the poll loop has issued exactly
\* one, the call is issued from the step that follows the probe and before
\* any poll, and no poll is made before it.
C16_OneMutateBeforePolling ==
    /\ [](Len(issued) <= 1)
    /\ []((InLoop \/ Returned) => Len(issued) = 1)
    /\ [][(pc # "mutate" /\ pc' = "mutate") => pc = "probe"]_vars
    /\ [][issued' # issued =>
            /\ pc = "mutate"
            /\ issued = <<>>
            /\ polls = 0
            /\ issued' = <<IF exists THEN "update_stack" ELSE "create_stack">>]_vars
    /\ [][polls' # polls => Len(issued) = 1 /\ issued' = issued]_vars

\* an update that was polled three times
C16_Witness ==
    /\ Returned
    /\ polls = 3
    /\ issued = <<"update_stack">>

\* C17: a result reports what the latest poll fetched: the status of its
\* describe_stacks and the events kept from its describe_stack_events,
\* whether the result is SUCCESS, FAILED or TIMEOUT; a result returned
\* before any poll is a TIMEOUT with a null status and no events.
C17_ResultIsLatestSnapshot ==
    Returned =>
        IF polls = 0
        THEN /\ result.status = "TIMEOUT"
             /\ result.final_stack_status = None
             /\ result.last_events = <<>>
        ELSE /\ lastPoll.n = polls
             /\ result.final_stack_status = lastPoll.status
             /\ result.last_events = lastPoll.events

\* a TIMEOUT after two polls, the stack having moved on since the second
C17_Witness ==
    /\ Returned
    /\ result.status = "TIMEOUT"
    /\ polls = 2
    /\ result.final_stack_status = UPDATE_IN_PROGRESS
    /\ cfnStack = UPDATE_COMPLETE
    /\ Len(result.last_events) < Len(stackEvents)

\* a TIMEOUT returned before the first poll
C17_WitnessNoPoll ==
    Returned /\ polls = 0 /\ result.status = "TIMEOUT"

\* the listing describe_stack_events returned to the latest poll: the log
\* only grows at its head, so the listing is the log's last `listed` entries
LatestListing ==
    SubSeq(stackEvents, Len(stackEvents) - lastPoll.listed + 1, Len(stackEvents))

\* C19: last_events of a result holds at most 10 events, and they are the
\* first 10 entries (all of them when there are fewer) of the listing the
\* latest poll got from the provider, entry for entry in the provider's
\* newest-first order.
C19_FirstTenOfListing ==
    Returned =>
        /\ Len(result.last_events) <= 10
        /\ polls > 0 =>
            /\ Len(result.last_events) =
                 IF lastPoll.listed < 10 THEN lastPoll.listed ELSE 10
            /\ \A i \in 1..Len(result.last_events) :
                 LET e == LatestListing[i]
                     d == result.last_events[i]
                 IN /\ d.timestamp = Str(e.Timestamp)
                    /\ d.resource_type = e.ResourceType
                    /\ d.logical_resource_id = e.LogicalResourceId
                    /\ d.resource_status = e.ResourceStatus
                    /\ d.resource_status_reason = e.ResourceStatusReason
            /\ \A i \in 1..(Len(result.last_events) - 1) :
                 LatestListing[i].Timestamp > LatestListing[i + 1].Timestamp

\* the listing was longer than the window
C19_Witness ==
    /\ Returned
    /\ Len(result.last_events) = 10
    /\ lastPoll.listed > 10
    /\ result.last_events[1].resource_status = UPDATE_COMPLETE

\* C18: a deploy call returns no later than timeout_seconds after it
\* started, on the clock the loop reads.  (Violated: the deadline is looked
\* at only at the top of an iteration, TIMEOUT is returned only once more
\* than timeout_seconds has elapsed, and the sleep is not cut to the time
\* that is left.)
C18_ReturnsWithinTimeout ==
    Returned => now - start <= timeout_seconds

-----------------------------------------------------------------------------
(* Further claims about invoke_bedrock_flow (checked under SpecInvoke) *)

\* the position of the last event of the stream that has top-level key k
LastWith(k) == CHOOSE i \in EventsWith(k) : \A j \in EventsWith(k) : j <= i

\* C21: raw_events grows by appending the stream's next event and is
\* returned equal to the stream, event for event in arrival order; when
\* several events have the same top-level key the completion_reason and the
\* output_document come from the last of them.
C21_RawEventsAndLastWriteWins ==
    /\ [](fpc # "idle" => raw_events = SubSeq(responseStream, 1, Len(raw_events)))
    /\ [][(fpc = "stream" /\ raw_events' # raw_events) =>
             raw_events' = Append(raw_events, responseStream[Len(raw_events) + 1])]_vars
    /\ [](fpc = "returned" =>
            /\ flowResult.raw_events = responseStream
            /\ EventsWith("flowCompletionEvent") # {} =>
                 flowResult.completion_reason =
                    responseStream[LastWith("flowCompletionEvent")]
                        ["flowCompletionEvent"].completionReason
            /\ EventsWith("flowOutputEvent") # {} =>
                 LET e == responseStream[LastWith("flowOutputEvent")]["flowOutputEvent"]
                 IN flowResult.output_document =
                      IF "content" \in DOMAIN e THEN e.content.document ELSE PyNone)

\* two output events with different documents, then the completion event
C21_Witness ==
    /\ fpc = "returned"
    /\ Len(flowResult.raw_events) = 3
    /\ EventsWith("flowOutputEvent") = {1, 2}
    /\ "content" \in DOMAIN responseStream[1]["flowOutputEvent"]
    /\ responseStream[1]["flowOutputEvent"].content.document = [x |-> 1]
    /\ flowResult.output_document = [x |-> 2]
    /\ flowResult.completion_reason = "SUCCESS"

-----------------------------------------------------------------------------
(* Claims about the end of the poll loop (checked under SpecDeployLive) *)

Ended == Returned \/ pc = "raised"

\* C22: a deploy call that has started ends: it returns a result unless a
\* provider call raised, whatever the stack does; a result whose status was
\* never observed terminal is a TIMEOUT.
C22_CallEnds ==
    /\ (pc # "idle") ~> Ended
    /\ [](pc = "raised" => exc # "None")
    /\ [](Returned =>
            (result.final_stack_status \notin TERMINAL_STATUSES =>
                result.status = "TIMEOUT"))

\* the stack stayed UPDATE_IN_PROGRESS through three polls
C22_Witness ==
    /\ Returned
    /\ result.status = "TIMEOUT"
    /\ polls = 3
    /\ cfnStack = UPDATE_IN_PROGRESS
    /\ result.final_stack_status = UPDATE_IN_PROGRESS

-----------------------------------------------------------------------------
(* Further claims about the deadline (checked under SpecDeploy) *)

\* C23: an iteration fetches the status only after its deadline check found
\* the deadline not passed; when the check finds it passed the call returns
\* TIMEOUT with the status of the earlier poll and calls neither
\* describe_stacks nor describe_stack_events again, whatever status the
\* stack has reached in the meantime.
C23_DeadlineCheckBeforeFetch ==
    /\ [][(pc # "describe" /\ pc' = "describe") =>
             pc = "loop" /\ ~(now - start > timeout_seconds)]_vars
    /\ [][polls' # polls => pc = "describe"]_vars
    /\ [][lastPoll' # lastPoll => pc \in {"describe", "events"}]_vars
    /\ [][(pc = "loop" /\ pc' # "loop" /\ now - start > timeout_seconds) =>
             /\ pc' = "returned"
             /\ result'.status = "TIMEOUT"
             /\ result'.final_stack_status = final_stack_status
             /\ result'.last_events = last_events
             /\ polls' = polls
             /\ lastPoll' = lastPoll]_vars
    /\ []((Returned /\ result.status = "TIMEOUT") =>
             result.final_stack_status \notin TERMINAL_STATUSES)

\* the stack finished its creation after the last poll
C23_Witness ==
    /\ Returned
    /\ result.status = "TIMEOUT"
    /\ cfnStack = CREATE_COMPLETE
    /\ result.final_stack_status = CREATE_IN_PROGRESS
    /\ lastPoll.listed = 1
    /\ Len(stackEvents) = 2

\* the poll counter stays below its cap
PollsBelowCap == polls < MaxPolls

-----------------------------------------------------------------------------
(* Claims about save_template racing list_s3_templates
   (checked under SpecSaveRace) *)

\* C24: once every call has ended, a template that save_template stored
\* under the default key still has the body that was saved, however the
\* concurrent list_s3_templates calls interleaved with the save.  (Violated:
\* a list that found the bucket empty writes the default template after the
\* save has stored its object.)
C24_SavedDefaultKeyKept ==
    (/\ AllIdle
     /\ Returns(Saver, "save_template")
     /\ ret[Saver].value.key = DEFAULT_TEMPLATE_KEY) =>
        Utf8Decode(s3Objects[ret[Saver].value.bucket][DEFAULT_TEMPLATE_KEY])
            = call[Saver].template_body

-----------------------------------------------------------------------------
(* Claims about which tool writes what (checked under SpecTemplates) *)

\* the step changes no object except, possibly, the one under `key` in `bucket`
OnlyObjectTouched(bucket, key) ==
    \A b \in s3Buckets' :
        /\ b \in s3Buckets => DOMAIN s3Objects[b] \subseteq DOMAIN s3Objects'[b]
        /\ \A k \in DOMAIN s3Objects'[b] :
              (b # bucket \/ k # key) =>
                  /\ b \in s3Buckets
                  /\ k \in DOMAIN s3Objects[b]
                  /\ s3Objects'[b][k] = s3Objects[b][k]

-----------------------------------------------------------------------------
(* Claims about concurrent ensure_templates_bucket calls
   (checked under SpecEnsureRace) *)

\* the name of the bucket of caller c's call
BucketOf(c) ==
    <<"bedrock-flow-templates", "-", AccountId, "-", ResolvedRegion(c)>>

\* C26: however concurrent ensure_templates_bucket calls interleave, a call
\* that returns returns the name of its region's bucket, the same for every
\* caller of that region, and the bucket exists; a caller whose probe failed
\* sends its create_bucket even when another caller has created the bucket
\* since, and when that create_bucket raises, the error ends the call.
C26_EnsureRace ==
    /\ [](\A c \in Callers : Returns(c, "ensure_templates_bucket") =>
            /\ ret[c].value.bucket = BucketOf(c)
            /\ ret[c].value.bucket \in s3Buckets
            /\ \A d \in Callers :
                  (Returns(d, "ensure_templates_bucket")
                   /\ call[d].region = call[c].region) =>
                      ret[d].value.bucket = ret[c].value.bucket)
    /\ [][\A c \in Callers :
            (tpc[c] = "create" /\ tpc'[c] # "create") =>
                /\ lastApi'[c].api = "create_bucket"
                /\ lastApi'[c].Bucket = BucketOf(c)
                /\ IF BucketOf(c) \in s3Buckets /\ ResolvedRegion(c) # "us-east-1"
                   THEN /\ tpc'[c] = "idle"
                        /\ ret'[c] = [kind |-> "raise",
                                      error |-> "BucketAlreadyOwnedByYou"]
                   ELSE /\ tpc'[c] = "ensured"
                        /\ BucketOf(c) \in s3Buckets']_vars

\* both callers found the bucket missing; the first created it, the
\* second's create_bucket raised
C26_Witness ==
    /\ AllIdle
    /\ Returns(1, "ensure_templates_bucket")
    /\ call[1].headOutcome = "NotFound"
    /\ call[2].op = "ensure_templates_bucket"
    /\ call[2].region = call[1].region
    /\ call[2].headOutcome = "NotFound"
    /\ ret[2] = [kind |-> "raise", error |-> "BucketAlreadyOwnedByYou"]

====
